---- MODULE Spec2Model ----
(***************************************************************************)
(* Model of project_y.py: an aiohttp fan-out gateway.  One inbound request *)
(* is resolved against routing_table, sent concurrently to every Upstream  *)
(* of the route by send_request, and the ApiResponses are reconciled into  *)
(* one web.Response by gateway.                                            *)
(*                                                                         *)
(* A Python str / bytes value whose content matters character by character *)
(* (the route key, which is .strip()ped) is a sequence of symbols; the     *)
(* symbol " " is whitespace and every other symbol stands for a run of     *)
(* non-whitespace characters.  A coroutine runs atomically between two     *)
(* awaits, so each action is the code between two suspension points.       *)
(***************************************************************************)
EXTENDS Integers, Sequences, FiniteSets, TLC

(* ---------------------------- bounds ----------------------------------- *)
\* longest raw route key (path segment) an inbound request carries
MaxKeyLen == 3

(* ------------------------- value objects ------------------------------- *)
\* contextvars.ContextVar("var", default=42)
TX_default == 42

\* Options.default_schema
default_schema == "http"

\* Upstream(name, host, port, endpoint, session)
Upstream(name, host, port, endpoint, session) ==
    [name |-> name, host |-> host, port |-> port, endpoint |-> endpoint,
     session |-> session]

\* Upstream.url: f"{schema}://{host}:{port}{endpoint}"
url(srv) == <<default_schema, "://", srv.host, ":", srv.port, srv.endpoint>>

\* Upstream.host_port: f"{host}:{port}"
host_port(srv) == <<srv.host, ":", srv.port>>

\* ApiResponse(body, status, headers, name)
ApiResponse(body, status, headers, name) ==
    [body |-> body, status |-> status, headers |-> headers, name |-> name]

service_a == Upstream("service1", "0.0.0.0", 9091, "/api/test", "session1")
service_b == Upstream("service2", "0.0.0.0", 9092, "/api/test", "session2")
service_c == Upstream("service3", "0.0.0.0", 9093, "/api/test", "session3")

\* the keys of routing_table, as one-symbol strings
RouteKeys == {<<"service1">>, <<"service2">>, <<"service3">>, <<"grouped">>}

\* routing_table: route key -> ordered list of Upstreams
routing_table ==
    [k \in RouteKeys |->
        CASE k = <<"service1">> -> <<service_a>>
          [] k = <<"service2">> -> <<service_b>>
          [] k = <<"service3">> -> <<service_c>>
          [] k = <<"grouped">>  -> <<service_a, service_b, service_c>>]

\* routing_table.get(upstream): the list, or None for a missing key
routing_table_get(upstream) ==
    IF upstream \in DOMAIN routing_table
    THEN [none |-> FALSE, list |-> routing_table[upstream]]
    ELSE [none |-> TRUE, list |-> <<>>]

\* `not srvs`: true of None and of the empty list
not_srvs(srvs) == srvs.none \/ Len(srvs.list) = 0

(* ----------------------------- str.strip ------------------------------- *)
Whitespace == {" "}

RECURSIVE lstrip(_)
lstrip(s) ==
    IF s # <<>> /\ Head(s) \in Whitespace THEN lstrip(Tail(s)) ELSE s

RECURSIVE rstrip(_)
rstrip(s) ==
    IF s # <<>> /\ s[Len(s)] \in Whitespace
    THEN rstrip(SubSeq(s, 1, Len(s) - 1))
    ELSE s

\* request.match_info["service"].strip()
strip(s) == rstrip(lstrip(s))

(* ------------------------------ headers -------------------------------- *)
\* A header mapping is a function from header names to values.  dict(...) of
\* an aiohttp CIMultiDictProxy keeps each name in the case it was stored in,
\* and dict.pop compares names exactly.
NoHeaders == [n \in {} |-> ""]

\* dict.pop(key, None) on a plain dict: removes the entry named exactly key
dict_pop(d, key) == [n \in (DOMAIN d) \ {key} |-> d[n]]

\* d[key] = value on a dict
dict_set(d, key, value) ==
    [n \in (DOMAIN d) \cup {key} |-> IF n = key THEN value ELSE d[n]]

(* ------------------------------- bodies -------------------------------- *)
\* the three diagnostic bodies (lines 133, 94, 103)
MarkerA == "Bad gateway #trace=0cf36ac4-b79e-4b74-85f1-fc823822c742"
MarkerB == "Bad gateway #trace=0cf36ac4-b79e-4b74-85f1-fc823822c743"
MarkerC == "Bad gateway #trace=0cf36ac4-b79e-4b74-85f1-fc823822c744"

\* bodies an upstream can answer with: valid JSON, text that is not JSON,
\* bytes that are not valid UTF-8
JsonBody == "{\"a\": 1}"
TextBody == "not json"
BinaryBody == "\\x80\\xfe"

\* bytes.decode("utf-8"): the text, or UnicodeDecodeError
decode_utf8(b) ==
    IF b = BinaryBody
    THEN [raised |-> "UnicodeDecodeError", value |-> ""]
    ELSE [raised |-> "none", value |-> b]

\* json.loads(bytes): the parsed value, or ValueError (JSONDecodeError for
\* text that is not JSON, UnicodeDecodeError for undecodable bytes; both are
\* subclasses of ValueError)
json_loads(b) ==
    IF b = JsonBody
    THEN [raised |-> "none", value |-> [tag |-> "object", a |-> "1"]]
    ELSE [raised |-> "ValueError", value |-> [tag |-> "none", a |-> ""]]

\* ApiResponse.transform: json.loads(body); on ValueError the dict
\* {"error": body.decode("utf-8")}, whose decode can raise in the handler
transform(r) ==
    LET parsed == json_loads(r.body) IN
    IF parsed.raised = "none"
    THEN [raised |-> "none", value |-> parsed.value]
    ELSE LET text == decode_utf8(r.body) IN
         IF text.raised = "none"
         THEN [raised |-> "none", value |-> [tag |-> "error", a |-> text.value]]
         ELSE [raised |-> text.raised, value |-> [tag |-> "none", a |-> ""]]

(* ------------------------- reconciliation ------------------------------ *)
\* d[key] = value while a dict is being built: a key already present keeps
\* its position and takes the new value, a new key is appended
dict_put(items, key, value) ==
    IF \E i \in 1..Len(items) : items[i].key = key
    THEN [i \in 1..Len(items) |->
            IF items[i].key = key THEN [key |-> key, value |-> value]
            ELSE items[i]]
    ELSE Append(items, [key |-> key, value |-> value])

\* mutant of dict_comprehension: responses of status 502 get no entry
RECURSIVE dict_comprehension_skip_502(_)
dict_comprehension_skip_502(results) ==
    IF results = <<>>
    THEN [raised |-> "none", items |-> <<>>]
    ELSE LET front == dict_comprehension_skip_502(SubSeq(results, 1, Len(results) - 1))
             r     == results[Len(results)]
             t     == transform(r)
         IN  IF front.raised # "none" THEN front
             ELSE IF r.status = 502 THEN front
             ELSE IF t.raised # "none"
                  THEN [raised |-> t.raised, items |-> <<>>]
                  ELSE [raised |-> "none",
                        items |-> dict_put(front.items, r.name, t.value)]

\* {r.name: r.transform() for r in results}: entries in result order; the
\* first transform that raises aborts the comprehension
RECURSIVE dict_comprehension(_)
dict_comprehension(results) ==
    IF results = <<>>
    THEN [raised |-> "none", items |-> <<>>]
    ELSE LET front == dict_comprehension(SubSeq(results, 1, Len(results) - 1))
             r     == results[Len(results)]
             t     == transform(r)
         IN  IF front.raised # "none" THEN front
             ELSE IF t.raised # "none"
                  THEN [raised |-> t.raised, items |-> <<>>]
                  ELSE [raised |-> "none",
                        items |-> dict_put(front.items, r.name, t.value)]

\* json.dumps of one transformed value
json_dumps_value(v) ==
    IF v.tag = "object" THEN <<"{\"a\": ", v.a, "}">>
    ELSE <<"{\"error\": \"", v.a, "\"}">>

\* json.dumps(dict): the members of the JSON object text, in dict order
json_dumps(items) ==
    [i \in 1..Len(items) |->
        [key |-> items[i].key, value |-> json_dumps_value(items[i].value)]]

\* mutant of min_by_status: the first response of greatest status
max_by_status(results) ==
    LET i == CHOOSE i \in 1..Len(results) :
                /\ \A j \in 1..Len(results) : results[i].status >= results[j].status
                /\ \A j \in 1..(i - 1) : results[j].status < results[i].status
    IN  results[i]

\* min(results, key=lambda r: r.status): the first response of least status
min_by_status(results) ==
    LET i == CHOOSE i \in 1..Len(results) :
                /\ \A j \in 1..Len(results) : results[i].status <= results[j].status
                /\ \A j \in 1..(i - 1) : results[j].status > results[i].status
    IN  results[i]

\* web.Response(body=..., status=..., headers=...) as gateway constructs it
web_Response(body, status, headers) ==
    [body |-> body, status |-> status, headers |-> headers]

\* mutant of no_route_response: answers 404
no_route_response_404 == web_Response(MarkerA, 404, NoHeaders)

\* the response of an unroutable request (lines 132-134)
no_route_response == web_Response(MarkerA, 502, NoHeaders)

\* the multi-target branch of reconcile (lines 154-160)
merge(results) ==
    LET status  == min_by_status(results).status
        headers == dict_pop(results[1].headers, "Content-Length")
        entries == dict_comprehension(results)
    IN  IF entries.raised # "none"
        THEN [raised |-> entries.raised,
              response |-> web_Response("", 0, NoHeaders)]
        ELSE [raised |-> "none",
              response |-> web_Response(json_dumps(entries.items),
                                        status, headers)]

\* mutant of reconcile: the single-target branch passes no headers on
reconcile_drop_headers(results) ==
    IF Len(results) = 1
    THEN [raised |-> "none",
          response |-> web_Response(results[1].body, results[1].status,
                                    NoHeaders)]
    ELSE merge(results)

\* lines 149-160 of gateway: what is returned, or raised, for a result list
reconcile(results) ==
    IF Len(results) = 1
    THEN [raised |-> "none",
          response |-> web_Response(results[1].body, results[1].status,
                                    results[1].headers)]
    ELSE merge(results)

(* ------------------------------ state ---------------------------------- *)
\* inbound requests handled by the server, each in its own asyncio task
Requests == {"R1", "R2"}

\* Python's None
None == "None"

\* the headers every inbound request arrives with
request_headers == [n \in {"Host", "Accept"} |->
                        IF n = "Host" THEN <<"gateway">> ELSE <<"*/*">>]

\* a send_request task that has not produced an ApiResponse
NoResult == ApiResponse("", 0, NoHeaders, "")

VARIABLES
    pc,        \* pc[r]: where the gateway coroutine of request r stands
    upstream,  \* upstream[r]: the local `upstream` of gateway
    method,    \* method[r]: request.method
    data,      \* data[r]: the local `data` of gateway (None or the body bytes)
    ctx,       \* ctx[r]: the value of TX in the context of r's handler task
    child,     \* child[r][i]: the send_request task for the i-th Upstream
    results,   \* results[r]: what asyncio.gather returned
    response,  \* response[r]: the web.Response gateway returned
    exc,       \* exc[r]: the exception gateway raised ("none" if none)
    mappings,  \* mappings[r][k]: the header mapping objects of request r:
               \* 0 is request.headers, i the copy made for the i-th task
    first_ended, \* first_ended[r]: the task of r that ended (returned or
               \* raised) first, 0 while none has
    uuid,      \* number of uuid4 values drawn so far
    log        \* the events logged so far, each with the tx it carries

vars == <<pc, upstream, method, data, ctx, child, results, response, exc,
          mappings, first_ended, uuid, log>>

\* srvs = routing_table.get(upstream)
srvs(r) == routing_table_get(upstream[r])

\* uuid.uuid4().hex: a value no earlier call returned (n calls were made before)
uuid4_hex(n) == n + 1

\* mutant of copy_context: the task starts in an empty context, where TX has
\* its default
copy_context_empty(tx) == TX_default

\* the context a new asyncio task runs in: a copy of its creator's context,
\* so TX in the task starts as the creator's current value
copy_context(tx) == tx

\* mutant of TX_set: the context variable keeps the value it had
TX_set_skipped(old, id) == old

\* TX.set(id) at line 127: the value of TX in the handler's context afterwards
TX_set(old, id) == id

\* TX.get() in the handler task of r
TX_get(r) == ctx[r]

\* one logger call: the event, the request and target it belongs to, its tx
log_event(r, target, event, tx) ==
    [req |-> r, target |-> target, event |-> event, tx |-> tx]

Init ==
    /\ pc = [r \in Requests |-> "idle"]
    /\ upstream = [r \in Requests |-> <<>>]
    /\ method = [r \in Requests |-> None]
    /\ data = [r \in Requests |-> None]
    /\ ctx = [r \in Requests |-> TX_default]
    /\ child = [r \in Requests |-> <<>>]
    /\ results = [r \in Requests |-> <<>>]
    /\ response = [r \in Requests |-> web_Response("", 0, NoHeaders)]
    /\ exc = [r \in Requests |-> "none"]
    /\ mappings = [r \in Requests |-> [k \in {0} |-> request_headers]]
    /\ first_ended = [r \in Requests |-> 0]
    /\ uuid = 0
    /\ log = {}

(* ---------------------------- send_request ----------------------------- *)
\* exceptions session.request can end with: the connector could not connect;
\* the connect or read timeout expired (aiohttp raises ServerTimeoutError,
\* which is not a ClientConnectorError)
RequestErrors == {"ClientConnectorError", "ServerTimeoutError"}

\* `except aiohttp.client_exceptions.ClientConnectorError`
is_ClientConnectorError(e) == e = "ClientConnectorError"

\* exceptions resp.read() can end with: the connection broke (ClientOSError,
\* an OSError); the payload was malformed or cut short (ClientPayloadError,
\* which is not an OSError)
ReadErrors == {"ClientOSError", "ClientPayloadError"}

\* `except IOError` (IOError is OSError)
is_IOError(e) == e = "ClientOSError"

\* what session.request was called with (nothing yet)
NoCall == [method |-> None, url |-> <<>>, headers |-> NoHeaders, data |-> None]

\* mutant of headers_copy: every task is handed request.headers itself
headers_no_copy(i) == 0

\* request.headers.copy() for the i-th task: a mapping object of its own
headers_copy(i) == i

\* the coroutine objects gateway hands to asyncio.gather, which wraps each in
\* a task: send_request(srv, method, request.headers.copy(), data) for srv
\* in srvs; tx is TX in the handler's context when the tasks are created
new_tasks(list, tx) ==
    [i \in 1..Len(list) |->
        [pc |-> "created", tx |-> copy_context(tx),
         headers |-> headers_copy(i), calls |-> 0, sent |-> NoCall,
         status |-> 0, resp_headers |-> NoHeaders, failure |-> "none",
         result |-> NoResult, exc |-> "none"]]

\* the mapping objects of a request once line 143 has made one copy of
\* request.headers for each of the n tasks
new_mappings(n) == [k \in 0..n |-> request_headers]

\* first_ended once task i of r has ended
note_end(r, i) ==
    IF first_ended[r] = 0 THEN [first_ended EXCEPT ![r] = i] ELSE first_ended

\* The tasks asyncio.gather creates are queued on the event loop together and
\* each runs up to its first suspension (inside session.request) before the
\* loop polls for I/O again: no outbound call of a request gets its answer
\* before every task of the request has issued its call.
all_started(r) == \A i \in DOMAIN child[r] : child[r][i].pc # "created"

\* lines 86-90: set Host, log "requesting", issue the outbound call
SendStart(r, i) ==
    /\ i \in DOMAIN child[r]
    /\ child[r][i].pc = "created"
    /\ LET srv == srvs(r).list[i]
           c   == child[r][i]
           h   == dict_set(mappings[r][c.headers], "Host", host_port(srv))
       IN  /\ mappings' = [mappings EXCEPT ![r][c.headers] = h]
           /\ child' = [child EXCEPT ![r][i] =
                  [c EXCEPT !.sent = [method |-> method[r], url |-> url(srv),
                                      headers |-> h, data |-> data[r]],
                            !.calls = c.calls + 1,
                            !.pc = "requesting"]]
           /\ log' = log \cup {log_event(r, srv.name, "requesting", c.tx)}
    /\ UNCHANGED <<pc, upstream, method, data, ctx, results, response,
                   exc, uuid,
                   first_ended>>

\* line 90 resumes with a response whose status line and headers arrived
SendResponse(r, i, status, headers) ==
    /\ i \in DOMAIN child[r]
    /\ child[r][i].pc = "requesting"
    /\ all_started(r)
    /\ child' = [child EXCEPT ![r][i] =
           [@ EXCEPT !.pc = "reading", !.status = status,
                     !.resp_headers = headers]]
    /\ UNCHANGED <<pc, upstream, method, data, ctx, results, response,
                   exc, mappings, uuid, log,
                   first_ended>>

\* mutant of on_connection_error: the call is issued once more before the
\* synthetic response is returned
on_connection_error_retry(c, srv) ==
    IF c.calls < 2
    THEN [c EXCEPT !.calls = c.calls + 1]
    ELSE [c EXCEPT !.pc = "done", !.failure = "connect",
                   !.result = ApiResponse(MarkerB, 502, NoHeaders, srv.name)]

\* lines 93-98: the task returns the synthetic response of a connection
\* failure
on_connection_error(c, srv) ==
    [c EXCEPT !.pc = "done", !.failure = "connect",
              !.result = ApiResponse(MarkerB, 502, NoHeaders, srv.name)]

\* mutant of on_read_error: the diagnostic body of the connection failure
on_read_error_marker_b(c, srv) ==
    [c EXCEPT !.pc = "done", !.failure = "read",
              !.result = ApiResponse(MarkerB, 502, NoHeaders, srv.name)]

\* lines 102-107: the task returns the synthetic response of a read failure
on_read_error(c, srv) ==
    [c EXCEPT !.pc = "done", !.failure = "read",
              !.result = ApiResponse(MarkerC, 502, NoHeaders, srv.name)]

\* line 90 resumes with an exception: lines 91-98 absorb a
\* ClientConnectorError, anything else leaves send_request
SendRequestFails(r, i, e) ==
    /\ i \in DOMAIN child[r]
    /\ child[r][i].pc = "requesting"
    /\ all_started(r)
    /\ LET srv == srvs(r).list[i]
           c   == child[r][i]
       IN  IF is_ClientConnectorError(e)
           THEN /\ child' = [child EXCEPT ![r][i] = on_connection_error(c, srv)]
                /\ log' = log \cup
                      {log_event(r, srv.name, "connection error", c.tx)}
           ELSE /\ child' = [child EXCEPT ![r][i] =
                      [c EXCEPT !.pc = "raised", !.exc = e]]
                /\ log' = log
    /\ first_ended' = note_end(r, i)
    /\ UNCHANGED <<pc, upstream, method, data, ctx, results, response,
                   exc, mappings, uuid>>

\* line 100 resumes with the body: lines 108-117
SendRead(r, i, body) ==
    /\ i \in DOMAIN child[r]
    /\ child[r][i].pc = "reading"
    /\ LET srv == srvs(r).list[i]
           c   == child[r][i]
       IN  /\ child' = [child EXCEPT ![r][i] =
                  [c EXCEPT !.pc = "done",
                            !.result = ApiResponse(body, c.status,
                                                   c.resp_headers, srv.name)]]
           /\ log' = log \cup {log_event(r, srv.name, "done", c.tx)}
    /\ first_ended' = note_end(r, i)
    /\ UNCHANGED <<pc, upstream, method, data, ctx, results, response,
                   exc, mappings, uuid>>

\* line 100 resumes with an exception: lines 101-107 absorb an IOError,
\* anything else leaves send_request
SendReadFails(r, i, e) ==
    /\ i \in DOMAIN child[r]
    /\ child[r][i].pc = "reading"
    /\ LET srv == srvs(r).list[i]
           c   == child[r][i]
       IN  IF is_IOError(e)
           THEN child' = [child EXCEPT ![r][i] = on_read_error(c, srv)]
           ELSE child' = [child EXCEPT ![r][i] =
                    [c EXCEPT !.pc = "raised", !.exc = e]]
    /\ first_ended' = note_end(r, i)
    /\ UNCHANGED <<pc, upstream, method, data, ctx, results, response,
                   exc, mappings, uuid, log>>

(* ------------------------------ gateway -------------------------------- *)
\* lines 124-138, up to the first await: resolve the route, mint the
\* transaction id, answer 502 if there is no route; otherwise read the body
\* if the request has one, or go straight on to the fan-out of line 140
GatewayStart(r, rawkey, m, body_exists) ==
    /\ pc[r] = "idle"
    /\ LET up == strip(rawkey)
           s  == routing_table_get(up)
           id == TX_set(ctx[r], uuid4_hex(uuid))
       IN  /\ upstream' = [upstream EXCEPT ![r] = up]
           /\ method' = [method EXCEPT ![r] = m]
           /\ ctx' = [ctx EXCEPT ![r] = id]
           /\ uuid' = uuid + 1
           /\ IF not_srvs(s)
              THEN /\ log' = log \cup {log_event(r, "", "request", id),
                                       log_event(r, "", "no routes to upstream", id)}
                   /\ response' = [response EXCEPT ![r] = no_route_response]
                   /\ pc' = [pc EXCEPT ![r] = "responded"]
                   /\ UNCHANGED <<child, mappings>>
              ELSE /\ log' = log \cup {log_event(r, "", "request", id)}
                   /\ UNCHANGED response
                   /\ IF body_exists
                      THEN /\ pc' = [pc EXCEPT ![r] = "read_body"]
                           /\ UNCHANGED <<child, mappings>>
                      ELSE /\ pc' = [pc EXCEPT ![r] = "gather"]
                           /\ child' = [child EXCEPT ![r] = new_tasks(s.list, id)]
                           /\ mappings' = [mappings EXCEPT ![r] =
                                              new_mappings(Len(s.list))]
    /\ UNCHANGED <<data, results, exc,
                   first_ended>>

\* line 138 resumes with the body; line 140 creates the send_request tasks
GatewayReadBody(r) ==
    /\ pc[r] = "read_body"
    /\ data' = [data EXCEPT ![r] = "payload"]
    /\ child' = [child EXCEPT ![r] = new_tasks(srvs(r).list, TX_get(r))]
    /\ mappings' = [mappings EXCEPT ![r] = new_mappings(Len(srvs(r).list))]
    /\ pc' = [pc EXCEPT ![r] = "gather"]
    /\ UNCHANGED <<upstream, method, ctx, results, response, exc, uuid, log,
                   first_ended>>

\* mutant of gather_ready: the wait ends with the first task that returns
gather_first_completed(r) == \E i \in DOMAIN child[r] : child[r][i].pc = "done"

\* asyncio.gather(...) without return_exceptions: its result is set once
\* every task has returned
gather_ready(r) == \A i \in DOMAIN child[r] : child[r][i].pc = "done"

\* mutant of gather_results: the response of the task that ended first leads,
\* the others follow in target order
results_first_ended_first(r) ==
    LET f     == first_ended[r]
        rest  == SelectSeq([i \in DOMAIN child[r] |-> i], LAMBDA i : i # f)
        order == <<f>> \o rest
    IN  [k \in DOMAIN child[r] |-> child[r][order[k]].result]

\* the list asyncio.gather returns: the tasks' results in the order the
\* coroutines were passed, which is the order of srvs
gather_results(r) == [i \in DOMAIN child[r] |-> child[r][i].result]

\* line 140 resumes with the result list; lines 149-160 build the response
GatewayReconcile(r) ==
    /\ pc[r] = "gather"
    /\ gather_ready(r)
    /\ LET res == gather_results(r)
           rec == reconcile(res)
       IN  /\ results' = [results EXCEPT ![r] = res]
           /\ IF rec.raised # "none"
              THEN /\ pc' = [pc EXCEPT ![r] = "raised"]
                   /\ exc' = [exc EXCEPT ![r] = rec.raised]
                   /\ UNCHANGED response
              ELSE /\ pc' = [pc EXCEPT ![r] = "responded"]
                   /\ response' = [response EXCEPT ![r] = rec.response]
                   /\ UNCHANGED exc
    /\ UNCHANGED <<upstream, method, data, ctx, child, mappings, uuid, log,
                   first_ended>>

\* line 140 resumes with the exception of a task that raised: gather passes
\* the first exception on at once, the other tasks are left running, and
\* gateway has no handler for it
GatewayGatherRaises(r, i) ==
    /\ pc[r] = "gather"
    /\ i \in DOMAIN child[r]
    /\ child[r][i].pc = "raised"
    /\ pc' = [pc EXCEPT ![r] = "raised"]
    /\ exc' = [exc EXCEPT ![r] = child[r][i].exc]
    /\ UNCHANGED <<upstream, method, data, ctx, child, results, response,
                   mappings, uuid, log,
                   first_ended>>

(* ------------------------------ inputs --------------------------------- *)
KeySymbols == {" ", "service1", "service2", "service3", "grouped", "other"}

\* the raw route keys of inbound requests (the route pattern admits no
\* empty segment)
RawKeys == UNION {[1..n -> KeySymbols] : n \in 1..MaxKeyLen}

Methods == {"GET", "POST"}

\* request.body_exists of the inbound requests: a POST carries a body, a GET
\* carries none
body_exists_for(m) == m = "POST"

\* most targets a route of routing_table has
Targets == 1..3

Statuses == {200, 503}

HeaderSets ==
    {[n \in {"Content-Type", "Content-Length"} |->
        IF n = "Content-Type" THEN "application/json" ELSE "8"],
     [n \in {"Content-Type", "content-length"} |->
        IF n = "Content-Type" THEN "text/plain" ELSE "8"]}

Bodies == {JsonBody, TextBody, BinaryBody}

(* --------------------------- specifications ---------------------------- *)
\* one inbound request, every response an upstream can give
Next ==
    \/ \E k \in RawKeys, m \in Methods :
            GatewayStart("R1", k, m, body_exists_for(m))
    \/ GatewayReadBody("R1")
    \/ \E i \in Targets : SendStart("R1", i)
    \/ \E i \in Targets, st \in Statuses, h \in HeaderSets :
            SendResponse("R1", i, st, h)
    \/ \E i \in Targets, e \in RequestErrors : SendRequestFails("R1", i, e)
    \/ \E i \in Targets, b \in Bodies : SendRead("R1", i, b)
    \/ \E i \in Targets, e \in ReadErrors : SendReadFails("R1", i, e)
    \/ GatewayReconcile("R1")
    \/ \E i \in Targets : GatewayGatherRaises("R1", i)

Spec == Init /\ [][Next]_vars

\* the route keys of the two concurrent requests: R1 takes the fan-out route,
\* a single-target route or none; R2 takes the same single-target route or
\* none
RawKeysTx(r) ==
    IF r = "R1" THEN {<<"grouped">>, <<"service1">>, <<"other">>}
    ELSE {<<"service1">>, <<"other">>}

\* two inbound requests handled concurrently, every transport outcome
NextTx ==
    \/ \E r \in Requests : \E k \in RawKeysTx(r), m \in Methods :
            GatewayStart(r, k, m, body_exists_for(m))
    \/ \E r \in Requests : GatewayReadBody(r)
    \/ \E r \in Requests, i \in Targets : SendStart(r, i)
    \/ \E r \in Requests, i \in Targets : SendResponse(r, i, 200, NoHeaders)
    \/ \E r \in Requests, i \in Targets, e \in RequestErrors :
            SendRequestFails(r, i, e)
    \/ \E r \in Requests, i \in Targets : SendRead(r, i, JsonBody)
    \/ \E r \in Requests, i \in Targets, e \in ReadErrors : SendReadFails(r, i, e)
    \/ \E r \in Requests : GatewayReconcile(r)
    \/ \E r \in Requests, i \in Targets : GatewayGatherRaises(r, i)

SpecTx == Init /\ [][NextTx]_vars

(* ------------------------------ claims --------------------------------- *)
\* gateway has finished handling r: it returned a response or raised
Finished(r) == pc[r] \in {"responded", "raised"}

\* the send_request tasks of r, by position in the target list
Tasks(r) == DOMAIN child[r]

\* C1: two inbound requests handled concurrently carry two distinct
\* transaction ids, and every TX value read while handling a request (by
\* gateway and by each of its send_request tasks, as recorded in the log
\* events) is that request's own id.
C1_TxIsolation ==
    /\ \A r1, r2 \in Requests :
          (r1 # r2 /\ pc[r1] # "idle" /\ pc[r2] # "idle") => ctx[r1] # ctx[r2]
    /\ \A e \in log : e.tx = ctx[e.req]
    /\ \A r \in Requests : \A i \in Tasks(r) : child[r][i].tx = ctx[r]

\* C1 witness: R2 was accepted while R1 was suspended in its fan-out, and
\* tasks of both requests have logged since
C1_Witness ==
    /\ pc["R1"] = "gather" /\ pc["R2"] = "gather"
    /\ ctx["R1"] < ctx["R2"]
    /\ Len(child["R1"]) = 3
    /\ \E e \in log : e.req = "R1" /\ e.event = "done"
    /\ \E e \in log : e.req = "R1" /\ e.event = "connection error"
    /\ \E e \in log : e.req = "R2" /\ e.event = "requesting"

\* C2 (as claimed): no send_request task ever ends with an exception, so no
\* gateway call ends with a transport exception that left the fan-out.
C2_DispatcherNeverRaises ==
    \A r \in Requests :
        /\ \A i \in Tasks(r) : child[r][i].pc # "raised"
        /\ exc[r] \notin (RequestErrors \cup ReadErrors)

\* C3: once the reconciliation of a routable request has started (the result
\* list exists, a response was built from it, or the merge raised), every one
\* of its N send_request tasks has returned, and the result list holds exactly
\* their N real or synthetic responses.
C3_JoinBarrier ==
    \A r \in Requests :
        (\/ results[r] # <<>>
         \/ (pc[r] = "responded" /\ ~not_srvs(srvs(r)))
         \/ exc[r] = "UnicodeDecodeError")
        => /\ Len(child[r]) = Len(srvs(r).list)
           /\ Len(results[r]) = Len(srvs(r).list)
           /\ \A i \in Tasks(r) :
                 /\ child[r][i].pc = "done"
                 /\ results[r][i] = child[r][i].result
                 /\ results[r][i].status >= 100

\* C3 witness: a three-target request was answered from one real response, one
\* connection-failure response and one read-failure response
C3_Witness ==
    /\ pc["R1"] = "responded"
    /\ Len(results["R1"]) = 3
    /\ results["R1"][1].body = MarkerB
    /\ results["R1"][2].body = MarkerC
    /\ results["R1"][3].body = JsonBody

\* C4: the status of a response built from two or more results is the least
\* of the results' statuses.
C4_MinStatus ==
    \A r \in Requests :
        (pc[r] = "responded" /\ Len(results[r]) >= 2)
        => /\ \A i \in 1..Len(results[r]) : response[r].status <= results[r][i].status
           /\ \E i \in 1..Len(results[r]) : response[r].status = results[r][i].status

\* C4 witness: the least status is a synthetic 502 that is not the first
\* result, next to a real 503
C4_Witness ==
    /\ pc["R1"] = "responded"
    /\ Len(results["R1"]) = 3
    /\ results["R1"][1].status = 503
    /\ results["R1"][2].status = 502
    /\ results["R1"][3].status = 503
    /\ response["R1"].status = 502

\* C5: the body of a response aggregated for two or more targets has exactly
\* one member per target, the i-th keyed by the i-th target's name.
C5_OneKeyPerTarget ==
    \A r \in Requests :
        (pc[r] = "responded" /\ Len(srvs(r).list) >= 2)
        => /\ Len(response[r].body) = Len(srvs(r).list)
           /\ \A i \in 1..Len(srvs(r).list) :
                 response[r].body[i].key = srvs(r).list[i].name
           /\ \A i, j \in 1..Len(response[r].body) :
                 i # j => response[r].body[i].key # response[r].body[j].key

\* C5 witness: an aggregate over a failed target, a non-JSON body and a JSON
\* body
C5_Witness ==
    /\ pc["R1"] = "responded"
    /\ Len(results["R1"]) = 3
    /\ results["R1"][1].body = TextBody
    /\ results["R1"][2].body = MarkerB
    /\ results["R1"][3].body = JsonBody
    /\ Len(response["R1"].body) = 3

\* the member json.dumps writes for an entry reported as the parsed value
ParsedMember(name) ==
    [key |-> name, value |-> <<"{\"a\": ", "1", "}">>]

\* the member json.dumps writes for an entry reported as {"error": text}
ErrorMember(name, text) ==
    [key |-> name, value |-> <<"{\"error\": \"", text, "\"}">>]

\* C6 (as claimed): whenever a list of two or more results is reconciled,
\* whatever the bodies, gateway returns a response (it does not raise) in
\* which every entry with a JSON body is the parsed value and every other
\* entry is {"error": <body as text>}.
C6_PerEntryFallback ==
    \A r \in Requests :
        (Finished(r) /\ Len(results[r]) >= 2)
        => /\ pc[r] = "responded"
           /\ \A i \in 1..Len(results[r]) :
                 response[r].body[i] =
                    IF results[r][i].body = JsonBody
                    THEN ParsedMember(results[r][i].name)
                    ELSE ErrorMember(results[r][i].name, results[r][i].body)

\* C7: a response built from a single result has exactly that result's
\* status, headers and body.
C7_SinglePassThrough ==
    \A r \in Requests :
        (pc[r] = "responded" /\ Len(results[r]) = 1)
        => /\ results[r][1] = child[r][1].result
           /\ response[r].status = results[r][1].status
           /\ response[r].headers = results[r][1].headers
           /\ response[r].body = results[r][1].body

\* C7 witness: a single real response with a Content-Length header and a body
\* that is not text went through
C7_Witness ==
    /\ pc["R1"] = "responded"
    /\ Len(results["R1"]) = 1
    /\ results["R1"][1].body = BinaryBody
    /\ "Content-Length" \in DOMAIN results["R1"][1].headers
    /\ response["R1"].status = 503

\* C8: the key gateway looks up is the trimmed route key; when it has no
\* entry (or an empty one) in routing_table, gateway answers 502 with marker
\* A and no send_request task and no outbound call exists for the request.
C8_Unroutable ==
    \A r \in Requests :
        pc[r] # "idle"
        => /\ upstream[r] # <<>>
              => /\ Head(upstream[r]) \notin Whitespace
                 /\ upstream[r][Len(upstream[r])] \notin Whitespace
           /\ not_srvs(srvs(r))
              => /\ pc[r] = "responded"
                 /\ response[r].status = 502
                 /\ response[r].body = MarkerA
                 /\ child[r] = <<>>
                 /\ results[r] = <<>>
                 /\ \A e \in log :
                       e.req = r => e.event \in {"request", "no routes to upstream"}

\* C8 witness: a route key of whitespace only was trimmed to the empty key
\* and answered as unroutable
C8_Witness ==
    /\ pc["R1"] = "responded"
    /\ upstream["R1"] = <<>>
    /\ response["R1"].body = MarkerA

\* C9 (as claimed): when gateway has finished a request with two or more
\* targets, of which some ended in a connection failure and all the others
\* answered 200, it returned status 200 and a body with an entry under each
\* failed target's name.
C9_GracefulDegradation ==
    \A r \in Requests :
        (/\ Finished(r)
         /\ Len(child[r]) >= 2
         /\ \A i \in Tasks(r) :
               /\ child[r][i].pc = "done"
               /\ \/ child[r][i].result.body = MarkerB
                  \/ child[r][i].result.status = 200
         /\ \E i \in Tasks(r) : child[r][i].result.body = MarkerB
         /\ \E i \in Tasks(r) : child[r][i].result.status = 200)
        => /\ pc[r] = "responded"
           /\ response[r].status = 200
           /\ \A i \in Tasks(r) :
                 child[r][i].result.body = MarkerB
                 => \E k \in 1..Len(response[r].body) :
                       response[r].body[k] = ErrorMember(srvs(r).list[i].name, MarkerB)

\* header names that name the Content-Length field (names are
\* case-insensitive in HTTP)
ContentLengthNames == {"Content-Length", "content-length"}

\* C10 (as claimed): the headers of a response aggregated from two or more
\* results are the first result's headers without any Content-Length entry.
C10_NoContentLength ==
    \A r \in Requests :
        (pc[r] = "responded" /\ Len(results[r]) >= 2)
        => /\ DOMAIN response[r].headers =
                 (DOMAIN results[r][1].headers) \ ContentLengthNames
           /\ \A n \in DOMAIN response[r].headers :
                 response[r].headers[n] = results[r][1].headers[n]

\* the inbound headers with Host rewritten to the host:port of srv
HeadersFor(srv) ==
    [n \in DOMAIN request_headers |->
        IF n = "Host" THEN <<srv.host, ":", srv.port>> ELSE request_headers[n]]

\* C11: every outbound call issued for a request carried the inbound method,
\* the inbound body, its own target's url and the inbound headers with only
\* Host rewritten to its own target's host:port; the inbound request's own
\* header mapping is never changed, and the mapping of a task that has not
\* issued its call yet is still the inbound one.
C11_OutboundContent ==
    \A r \in Requests :
        /\ mappings[r][0] = request_headers
        /\ \A i \in Tasks(r) :
              LET srv == srvs(r).list[i] IN
              IF child[r][i].pc = "created"
              THEN /\ child[r][i].sent = NoCall
                   /\ mappings[r][i] = request_headers
              ELSE /\ child[r][i].sent.method = method[r]
                   /\ child[r][i].sent.data = data[r]
                   /\ child[r][i].sent.url =
                         <<"http", "://", srv.host, ":", srv.port, srv.endpoint>>
                   /\ child[r][i].sent.headers = HeadersFor(srv)
                   /\ mappings[r][i] = HeadersFor(srv)

\* C11 witness: a POST with a body fanned out to three targets, each call
\* with its own Host, the calls at three different stages
C11_Witness ==
    /\ method["R1"] = "POST"
    /\ data["R1"] = "payload"
    /\ Len(child["R1"]) = 3
    /\ child["R1"][1].pc = "requesting"
    /\ child["R1"][2].pc = "reading"
    /\ child["R1"][3].pc = "done"
    /\ child["R1"][2].sent.headers["Host"] = <<"0.0.0.0", ":", 9092>>
    /\ child["R1"][3].sent.headers["Host"] = <<"0.0.0.0", ":", 9093>>

\* the Content-Type a web.Response built by line 160 goes out with: the entry
\* of the headers it was given, and when there is none the type aiohttp
\* gives a str body
declared_content_type(resp) ==
    IF "Content-Type" \in DOMAIN resp.headers
    THEN resp.headers["Content-Type"]
    ELSE "text/plain; charset=utf-8"

\* C12 (as claimed): a response aggregated from two or more results declares
\* a JSON Content-Type, whatever the headers of the first result.
C12_JsonContentType ==
    \A r \in Requests :
        (pc[r] = "responded" /\ Len(results[r]) >= 2)
        => declared_content_type(response[r]) = "application/json"

\* C13 (as claimed): no handling of a request ends with gateway raising:
\* whenever gateway has finished, it has returned a response with a status
\* (502 with marker A, the single result, or the aggregate).
C13_AlwaysResponds ==
    \A r \in Requests :
        Finished(r) => /\ pc[r] = "responded"
                       /\ exc[r] = "none"
                       /\ response[r].status \in 100..599

\* C14 (as claimed): when gateway has finished handling a request, by a
\* response or otherwise, every send_request task of the request has ended:
\* none is waiting to start, waiting for its response or reading a body.
C14_NoEarlyReturn ==
    \A r \in Requests :
        Finished(r) =>
            \A i \in Tasks(r) : child[r][i].pc \in {"done", "raised"}

\* C15: a request has one send_request task per entry of its target list or,
\* before the fan-out and when unroutable, none; a task has issued exactly one
\* outbound call once it has started, whatever the outcome, and none before;
\* when gateway has finished a routable request every target was called once.
C15_OneCallPerTarget ==
    \A r \in Requests :
        /\ Len(child[r]) \in {0, Len(srvs(r).list)}
        /\ \A i \in Tasks(r) :
              child[r][i].calls = IF child[r][i].pc = "created" THEN 0 ELSE 1
        /\ (Finished(r) /\ ~not_srvs(srvs(r)))
           => /\ Len(child[r]) = Len(srvs(r).list)
              /\ \A i \in Tasks(r) : child[r][i].calls = 1

\* C15 witness: three targets ended in a connection failure, a read failure
\* and a success, each called once
C15_Witness ==
    /\ pc["R1"] = "responded"
    /\ Len(child["R1"]) = 3
    /\ child["R1"][1].failure = "connect"
    /\ child["R1"][2].failure = "read"
    /\ child["R1"][3].result.body = TextBody
    /\ \A i \in 1..3 : child["R1"][i].calls = 1

\* C16: the list gather returned has one response per target, the i-th
\* being the response of the i-th target's task and carrying its name,
\* whichever task ended first.
C16_OrderPreserving ==
    \A r \in Requests :
        results[r] # <<>>
        => /\ Len(results[r]) = Len(srvs(r).list)
           /\ \A i \in 1..Len(results[r]) :
                 /\ results[r][i].name = srvs(r).list[i].name
                 /\ results[r][i] = child[r][i].result

\* C16 witness: the third target's task ended first and the first result is
\* still the first target's, different from the third's
C16_Witness ==
    /\ first_ended["R1"] = 3
    /\ Len(results["R1"]) = 3
    /\ results["R1"][1].name = "service1"
    /\ results["R1"][3].name = "service3"
    /\ results["R1"][1].status = 200
    /\ results["R1"][3].status = 502

\* the response a list of per-target outcomes calls for, target by target
ExpectedStatus(r) ==
    CHOOSE st \in {child[r][i].result.status : i \in Tasks(r)} :
        \A i \in Tasks(r) : st <= child[r][i].result.status

ExpectedMember(r, i) ==
    IF child[r][i].result.body = JsonBody
    THEN ParsedMember(srvs(r).list[i].name)
    ELSE ErrorMember(srvs(r).list[i].name, child[r][i].result.body)

ExpectedHeaders(r) ==
    LET h == child[r][1].result.headers IN
    IF Len(child[r]) = 1 THEN h
    ELSE [n \in (DOMAIN h) \ {"Content-Length"} |-> h[n]]

\* the outcomes for which lines 149-160 raise: two or more results, one of
\* them with a body that is not text
MergeRaises(r) ==
    /\ Len(child[r]) >= 2
    /\ \E i \in Tasks(r) : child[r][i].result.body = BinaryBody

\* C19: what gateway answers is decided by the per-target outcomes alone, not
\* by the order in which the tasks ran: a response is built only from all the
\* outcomes, its status, headers and body are those the outcomes in target
\* order call for, and gateway raises only if a task raised or the outcomes
\* make the merge raise.
C19_OrderIndependent ==
    \A r \in Requests :
        /\ (pc[r] = "responded" /\ ~not_srvs(srvs(r)))
           => /\ \A i \in Tasks(r) : child[r][i].pc = "done"
              /\ ~MergeRaises(r)
              /\ response[r].status = ExpectedStatus(r)
              /\ response[r].headers = ExpectedHeaders(r)
              /\ IF Len(child[r]) = 1
                 THEN response[r].body = child[r][1].result.body
                 ELSE /\ Len(response[r].body) = Len(child[r])
                      /\ \A i \in Tasks(r) :
                            response[r].body[i] = ExpectedMember(r, i)
        /\ pc[r] = "raised"
           => \/ \E i \in Tasks(r) : child[r][i].pc = "raised"
              \/ /\ \A i \in Tasks(r) : child[r][i].pc = "done"
                 /\ MergeRaises(r)

\* C19 witness: the second target's task ended first with a synthetic 502, and
\* the answer is the one the outcomes in target order call for: the least
\* status, the first target's headers
C19_Witness ==
    /\ pc["R1"] = "responded"
    /\ first_ended["R1"] = 2
    /\ Len(results["R1"]) = 3
    /\ child["R1"][1].result.status = 503
    /\ child["R1"][2].failure = "connect"
    /\ response["R1"].status = 502
    /\ "Content-Type" \in DOMAIN response["R1"].headers

\* C17: the three failure points give three pairwise distinct diagnostic
\* bodies, each with status 502: an unroutable request is answered with
\* marker A; a task whose call ended in a connection failure returns marker B
\* with empty headers; a task whose body read failed returns marker C with
\* empty headers; and a marker comes from no other place.
C17_DistinctMarkers ==
    /\ MarkerA # MarkerB /\ MarkerA # MarkerC /\ MarkerB # MarkerC
    /\ \A r \in Requests :
          /\ (pc[r] = "responded" /\ not_srvs(srvs(r)))
             => /\ response[r].status = 502
                /\ response[r].body = MarkerA
                /\ response[r].headers = NoHeaders
          /\ (pc[r] = "responded" /\ ~not_srvs(srvs(r)))
             => /\ results[r] # <<>>
                /\ Len(results[r]) = 1 => response[r].body # MarkerA
          /\ \A i \in Tasks(r) :
                LET c == child[r][i] IN
                /\ c.failure = "connect"
                   <=> c.result = [body |-> MarkerB, status |-> 502,
                                   headers |-> NoHeaders,
                                   name |-> srvs(r).list[i].name]
                /\ c.failure = "read"
                   <=> c.result = [body |-> MarkerC, status |-> 502,
                                   headers |-> NoHeaders,
                                   name |-> srvs(r).list[i].name]
                /\ c.result.body # MarkerA

\* C17 witness: one request whose first target failed to connect and whose
\* second target failed while its body was read
C17_Witness ==
    /\ Len(child["R1"]) = 3
    /\ child["R1"][1].result.body = MarkerB
    /\ child["R1"][2].result.body = MarkerC
    /\ child["R1"][2].status = 200
    /\ child["R1"][3].result.body = JsonBody

\* C18: a request that has not been accepted has minted no id and logged
\* nothing; for an accepted request exactly one id was minted (the ids handed
\* out so far are as many as the accepted requests), it is not the default 42,
\* and the ids carried by all the log events of the request so far (request,
\* no routes to upstream, requesting, connection error, done) are that one id.
C18_OneTxPerRequest ==
    /\ uuid = Cardinality({r \in Requests : pc[r] # "idle"})
    /\ \A e \in log : e.tx # TX_default
    /\ \A r \in Requests :
          LET events == {e \in log : e.req = r} IN
          IF pc[r] = "idle"
          THEN events = {} /\ ctx[r] = TX_default
          ELSE /\ ctx[r] \in 1..uuid
               /\ \E e \in events : e.event = "request"
               /\ {e.tx : e \in events} = {ctx[r]}
               /\ {e.event : e \in events} \subseteq
                     {"request", "no routes to upstream", "requesting",
                      "connection error", "done"}

\* C18 witness: R1 has logged all its fan-out events and R2, accepted later,
\* was logged as unroutable
C18_Witness ==
    /\ pc["R1"] = "responded" /\ pc["R2"] = "responded"
    /\ ctx["R1"] = 1 /\ ctx["R2"] = 2
    /\ {e.event : e \in {x \in log : x.req = "R1"}}
          = {"request", "requesting", "connection error", "done"}
    /\ {e.event : e \in {x \in log : x.req = "R2"}}
          = {"request", "no routes to upstream"}

====
